---- MODULE Spec2Model ----
(***************************************************************************)
(* Model of gp::GaussianProcess (src/src/process/gaussian_process.cpp):    *)
(* the three constructors, Evaluate, EvaluateTrainingPoint,                *)
(* LearnHyperparams, Covariance and CrossCovariance, together with the     *)
(* other holders of the shared point set and of the shared kernel.         *)
(*                                                                         *)
(* A double is modelled as an exact rational <<p, q>> (q > 0, lowest       *)
(* terms).  Two pairs with q = 0 stand for what is not a number of the     *)
(* program: Uninit, a buffer entry that was allocated and never written,   *)
(* and Garbage, what Eigen's LLT::solve returns after a factorization      *)
(* that reported NumericalIssue.  Indices are 1-based in the model and     *)
(* 0-based in the interface (the ii of EvaluateTrainingPoint).             *)
(***************************************************************************)
EXTENDS Integers, Sequences, FiniteSets, TLC

\* ------------------------------------------------------------- bounds
MaxCapacity == 2   \* max_points is drawn from 0..MaxCapacity (and TenfoldCapacity)
MaxLen == 3        \* longest point set / target vector handed to a constructor

\* the divisor of "max_points / 10 + 1"
Divisor == 10
\* a capacity for which max_points / 10 + 1 is more than one point
TenfoldCapacity == Divisor

Coords == {0, 1}          \* coordinates of a point
Dimensions == {0, 1}      \* dimension of the points
\* kernel parameter vectors <<amplitude, decay rate>>
ParamVectors == {<<1, 0>>, <<1, 1>>, <<2, 1>>}
TargetInts == {0, 1}      \* target observations
NoiseHalves == {0, 1}     \* noise, in halves: 0, 1/2

\* ------------------------------------------------------ exact doubles
Uninit == <<0, 0>>
Garbage == <<1, 0>>

IsNum(v) == v[2] # 0

Abs(n) == IF n < 0 THEN -n ELSE n

RECURSIVE GCD(_, _)
GCD(a, b) == IF b = 0 THEN a ELSE GCD(b, a % b)

Rat(p, q) ==
  LET s == IF q < 0 THEN -1 ELSE 1
      g == GCD(Abs(p), Abs(q))
  IN  <<(s * p) \div g, (s * q) \div g>>

\* an operation with an operand that is not a number: reading an entry that
\* was never written gives an indeterminate result, garbage stays garbage
Taint(a, b) == IF a = Uninit \/ b = Uninit THEN Uninit ELSE Garbage

RAdd(a, b) ==
  IF IsNum(a) /\ IsNum(b) THEN Rat(a[1] * b[2] + b[1] * a[2], a[2] * b[2])
  ELSE Taint(a, b)

RSub(a, b) ==
  IF IsNum(a) /\ IsNum(b) THEN Rat(a[1] * b[2] - b[1] * a[2], a[2] * b[2])
  ELSE Taint(a, b)

RMul(a, b) ==
  IF IsNum(a) /\ IsNum(b) THEN Rat(a[1] * b[1], a[2] * b[2])
  ELSE Taint(a, b)

\* b is a nonzero number
RDiv(a, b) ==
  IF IsNum(a) /\ IsNum(b) THEN Rat(a[1] * b[2], a[2] * b[1])
  ELSE Taint(a, b)

RPos(a) == IsNum(a) /\ a[1] > 0

Zero == <<0, 1>>
One == <<1, 1>>

\* VectorXd::dot on two vectors of the same length
RECURSIVE Dot(_, _)
Dot(a, b) ==
  IF Len(a) = 0 THEN Zero
  ELSE RAdd(RMul(Head(a), Head(b)), Dot(Tail(a), Tail(b)))

\* ----------------------------------------------------- linear algebra
\* (Only({e : x \in {v}}) is e with x bound to the value v, computed once.)
Only(S) == CHOOSE e \in S : TRUE

\* a matrix is a sequence of rows
Without(s, k) == [i \in 1..(Len(s) - 1) |-> IF i < k THEN s[i] ELSE s[i + 1]]

Minor(m, r, c) == [i \in 1..(Len(m) - 1) |-> Without(Without(m, r)[i], c)]

RECURSIVE Det(_)
RECURSIVE Expand(_, _)
Det(m) == IF Len(m) = 0 THEN One ELSE Expand(m, Len(m))

\* the first c terms of the expansion of Det(m) along the first row
Expand(m, c) ==
  IF c = 0 THEN Zero
  ELSE RAdd(Expand(m, c - 1),
            RMul(IF c % 2 = 1 THEN m[1][c] ELSE RSub(Zero, m[1][c]),
                 Det(Minor(m, 1, c))))

Leading(m, k) == [i \in 1..k |-> SubSeq(m[i], 1, k)]

\* the Cholesky factor exists exactly when every pivot is positive, and pivot
\* k is Det(Leading(m, k)) / Det(Leading(m, k - 1))
PositiveDefinite(m) == \A k \in 1..Len(m) : RPos(Det(Leading(m, k)))

\* the inverse of a matrix with Det(m) = d # 0, by cofactors
Inverse(m, d) ==
  [i \in 1..Len(m) |-> [j \in 1..Len(m) |->
     RDiv(IF (i + j) % 2 = 0 THEN Det(Minor(m, j, i))
          ELSE RSub(Zero, Det(Minor(m, j, i))), d)]]

MatVec(m, v) == [i \in 1..Len(m) |-> Dot(m[i], v)]

\* ------------------------------------------------------------ kernel
\* The Kernel capability: Evaluate(a, b) under the parameter vector
\* <<gain, rate>> is gain / 2^(rate * |a - b|_1), symmetric in a and b.
\* k(x, x) = gain; the kernel is positive semi-definite with k(x, x) = 1
\* only for gain = 1.
RECURSIVE Dist(_, _)
Dist(a, b) ==
  IF Len(a) = 0 THEN 0 ELSE Abs(Head(a) - Head(b)) + Dist(Tail(a), Tail(b))

KernelEvaluate(params, a, b) == Rat(params[1], 2 ^ (params[2] * Dist(a, b)))


\* ------------------------------------------------------------- inputs
RECURSIVE SeqsOfLen(_, _)
SeqsOfLen(S, n) ==
  IF n = 0 THEN {<<>>}
  ELSE {Append(s, e) : s \in SeqsOfLen(S, n - 1), e \in S}

SeqsUpTo(S, n) == UNION {SeqsOfLen(S, k) : k \in 0..n}

\* VectorXd of a given dimension
PointsOfDim(d) == SeqsOfLen(Coords, d)

NoiseVals == {Rat(h, 2) : h \in NoiseHalves}
TargetVals == {Rat(t, 1) : t \in TargetInts}
Capacities == 0..MaxCapacity

\* ------------------------------------------------------------- state
VARIABLES
  phase,        \* "unconstructed", "ready", or "dead" (a CHECK or assertion aborted)
  ctor,         \* the constructor called and the arguments it does not store
  kernel_,      \* "null" or "kernel"
  params,       \* kernel_->Params(), owned by the shared kernel
  noise_,
  points_,      \* the shared point set
  max_points_,
  targets_,     \* VectorXd(max_points)
  regressed_,   \* VectorXd(max_points)
  covariance_,  \* MatrixXd(max_points, max_points), a sequence of rows
  llt_,         \* Eigen::LLT: the matrix it factorized and info()
  last,         \* the call on the object that has just returned, and its results
  synced        \* the points and kernel parameters read by the last Covariance()

vars == <<phase, ctor, kernel_, params, noise_, points_, max_points_, targets_,
          regressed_, covariance_, llt_, last, synced>>

gpState == <<kernel_, params, noise_, points_, max_points_, targets_,
             regressed_, covariance_, llt_>>

NoCall ==
  [op |-> "none", status |-> "ok", ii |-> 0, x |-> <<>>, cross |-> <<>>,
   coeffLen |-> 0, lltDim |-> 0, mean |-> Uninit, variance |-> Uninit,
   start |-> <<>>, buffer |-> <<>>, ret |-> FALSE]

\* VectorXd(n) and MatrixXd(n, n): allocated, not written
NewVector(n) == [i \in 1..n |-> Uninit]
NewMatrix(n) == [i \in 1..n |-> NewVector(n)]

\* Eigen's default-constructed LLT
NewLlt == [matrix |-> <<>>, info |-> "Success", inverse |-> <<>>]

Init ==
  /\ phase = "unconstructed"
  /\ ctor = [overload |-> 0, dimension |-> 0, targets_size |-> 0,
             points_null |-> FALSE]
  /\ kernel_ = "null"
  /\ params = <<>>
  /\ noise_ = Zero
  /\ points_ = <<>>
  /\ max_points_ = 0
  /\ targets_ = <<>>
  /\ regressed_ = <<>>
  /\ covariance_ = <<>>
  /\ llt_ = NewLlt
  /\ last = NoCall
  /\ synced = [points |-> <<>>, params |-> <<>>]

\* ----------------------------------------------- covariance and solves
Max(a, b) == IF a > b THEN a ELSE b
Min(a, b) == IF a < b THEN a ELSE b

\* (a Covariance that forgets covariance_(jj, ii) = covariance_(ii, jj))
CovarianceLowerOnly(cov, pts, prm, noise) ==
  [i \in 1..Len(cov) |-> [j \in 1..Len(cov) |->
     IF i <= Len(pts) /\ j <= i
     THEN IF i = j THEN RAdd(One, noise)
          ELSE KernelEvaluate(prm, pts[i], pts[j])
     ELSE cov[i][j]]]

\* GaussianProcess::Covariance on the buffer cov: the block of the first
\* Len(pts) rows and columns is rewritten, the rest is left as it is.  Only
\* pairs ii > jj are evaluated, as Evaluate(point ii, point jj), and mirrored.
Covariance(cov, pts, prm, noise) ==
  [i \in 1..Len(cov) |-> [j \in 1..Len(cov) |->
     IF i <= Len(pts) /\ j <= Len(pts)
     THEN IF i = j THEN RAdd(One, noise)
          ELSE KernelEvaluate(prm, pts[Max(i, j)], pts[Min(i, j)])
     ELSE cov[i][j]]]

\* GaussianProcess::CrossCovariance into a vector of Len(pts) entries
CrossCovariance(pts, prm, x) ==
  [i \in 1..Len(pts) |-> KernelEvaluate(prm, pts[i], x)]

\* covariance_.topLeftCorner(n, n)
topLeftCorner(cov, n) == [i \in 1..n |-> SubSeq(cov[i], 1, n)]

\* vec.head(n)
head(vec, n) == SubSeq(vec, 1, n)

\* vec.head(Len(val)) = val
AssignHead(vec, val) ==
  [i \in 1..Len(vec) |-> IF i <= Len(val) THEN val[i] ELSE vec[i]]

\* covariance_.col(ii), ii 1-based
col(cov, ii) == [i \in 1..Len(cov) |-> cov[i][ii]]

\* llt_.compute(block): Eigen's LLT reads the lower triangle of the block.
\* The factor L is represented by the symmetric matrix a = L L^T it
\* factorizes and by the inverse of a, which is what solve applies.
LltCompute(block) ==
  Only({IF PositiveDefinite(a)
        THEN [matrix |-> a, info |-> "Success", inverse |-> Inverse(a, Det(a))]
        ELSE [matrix |-> a, info |-> "NumericalIssue", inverse |-> <<>>] :
           a \in {[i \in 1..Len(block) |-> [j \in 1..Len(block) |->
                     block[Max(i, j)][Min(i, j)]]]}})

\* llt_.solve(b) for Len(b) = the dimension of the factorization; info() is
\* not consulted: after NumericalIssue the result is garbage
LltSolve(llt, b) ==
  IF llt.info = "Success"
  THEN MatVec(llt.inverse, b)
  ELSE [i \in 1..Len(b) |-> Garbage]

\* The tail shared by the three constructors and LearnHyperparams:
\*   Covariance();
\*   llt_.compute(covariance_.topLeftCorner(n, n));
\*   regressed_.head(n) = llt_.solve(targets_.head(n));
\* (a tail that leaves the regressed coefficients as they were)
RecomputeWithoutSolve(cov, regr, pts, prm, noise, tgts) ==
  Only({[covariance |-> c, llt |-> LltCompute(topLeftCorner(c, Len(pts))),
         regressed |-> regr] :
           c \in {Covariance(cov, pts, prm, noise)}})

Recompute(cov, regr, pts, prm, noise, tgts) ==
  Only({Only({[covariance |-> c, llt |-> f,
               regressed |-> AssignHead(regr, LltSolve(f, head(tgts, Len(pts))))] :
                f \in {LltCompute(topLeftCorner(c, Len(pts)))}}) :
           c \in {Covariance(cov, pts, prm, noise)}})

\* ------------------------------------------------------- constructors
\* The member initializers, the CHECKs (ok: all of them pass) and, when they
\* pass, the body: written is what the body stores in targets_.head.
Build(k, prm, noise, pts, mp, ok, written) ==
  /\ kernel_' = k
  /\ params' = prm
  /\ noise_' = noise
  /\ points_' = pts
  /\ max_points_' = mp
  /\ IF ok
     THEN \E t \in {AssignHead(NewVector(mp), written)} :
          \E r \in {Recompute(NewMatrix(mp), NewVector(mp), pts, prm, noise, t)} :
              /\ targets_' = t
              /\ covariance_' = r.covariance
              /\ llt_' = r.llt
              /\ regressed_' = r.regressed
              /\ phase' = "ready"
              /\ last' = [NoCall EXCEPT !.op = "GaussianProcess"]
              /\ synced' = [points |-> pts, params |-> prm]
     ELSE /\ targets_' = NewVector(mp)
          /\ covariance_' = NewMatrix(mp)
          /\ llt_' = NewLlt
          /\ regressed_' = NewVector(mp)
          /\ phase' = "dead"
          /\ last' = [NoCall EXCEPT !.op = "GaussianProcess",
                                    !.status = "check_failed"]
          /\ synced' = synced

\* a Kernel::Ptr: null, or a kernel with its parameter vector
Kernels == {<<"null", <<>>>>} \cup {<<"kernel", p>> : p \in ParamVectors}

\* (a loop bound without the "+ 1")
InitialPointCountTenth(max_points) == max_points \div Divisor

\* the bound of "for (ii = 0; ii < max_points / 10 + 1; ii++)"
InitialPointCount(max_points) == (max_points \div Divisor) + 1

\* GaussianProcess(kernel, noise, dimension, max_points)
ConstructFromDimension ==
  /\ phase = "unconstructed"
  /\ \E k \in Kernels, noise \in NoiseVals, dimension \in Dimensions,
        max_points \in Capacities \cup {TenfoldCapacity} :
       LET ok == /\ k[1] # "null"
                 /\ max_points >= 1
                 /\ dimension >= 1
                 /\ RPos(noise)
           n == InitialPointCount(max_points)
       IN  /\ ctor' = [overload |-> 1, dimension |-> dimension, targets_size |-> 0,
                         points_null |-> FALSE]
           /\ IF ok
              THEN \E pts \in SeqsOfLen(PointsOfDim(dimension), n),
                      t \in SeqsOfLen(TargetVals, n) :
                     Build(k[1], k[2], noise, pts, max_points, TRUE, t)
              ELSE Build(k[1], k[2], noise, <<>>, max_points, FALSE, <<>>)

\* GaussianProcess(kernel, noise, points, max_points); a null points fails
\* CHECK_NOTNULL(points_.get()) and is held as the empty sequence
ConstructFromPoints ==
  /\ phase = "unconstructed"
  /\ \E k \in Kernels, noise \in NoiseVals, dimension \in Dimensions,
        max_points \in Capacities, null \in BOOLEAN :
       \E pts \in IF null THEN {<<>>} ELSE SeqsUpTo(PointsOfDim(dimension), MaxLen) :
         LET ok == /\ k[1] # "null"
                   /\ ~null
                   /\ max_points >= 1
                   /\ Len(pts) <= max_points
                   /\ RPos(noise)
         IN  /\ ctor' = [overload |-> 2, dimension |-> dimension, targets_size |-> 0,
                         points_null |-> null]
             /\ IF ok
                THEN \E t \in SeqsOfLen(TargetVals, Len(pts)) :
                       Build(k[1], k[2], noise, pts, max_points, TRUE, t)
                ELSE Build(k[1], k[2], noise, pts, max_points, FALSE, <<>>)

\* GaussianProcess(kernel, noise, points, targets, max_points).  This overload
\* dereferences points without a null check; it is called with a point set.
ConstructFromTargets ==
  /\ phase = "unconstructed"
  /\ \E k \in Kernels, noise \in NoiseVals, dimension \in Dimensions,
        max_points \in Capacities :
       \E pts \in SeqsUpTo(PointsOfDim(dimension), MaxLen),
          targets \in SeqsUpTo(TargetVals, MaxLen) :
         LET ok == /\ k[1] # "null"
                   /\ max_points >= 1
                   /\ Len(pts) <= max_points
                   /\ Len(pts) = Len(targets)
                   /\ RPos(noise)
         IN  /\ ctor' = [overload |-> 3, dimension |-> dimension,
                         targets_size |-> Len(targets), points_null |-> FALSE]
             /\ Build(k[1], k[2], noise, pts, max_points, ok,
                      IF ok THEN targets ELSE <<>>)

\* ---------------------------------------------------------- prediction
\* mean = cross.dot(regressed_);
\* variance = 1.0 - cross.dot(llt_.solve(cross));
\* Eigen asserts that the operands of dot and of solve agree in size.  Where
\* they do not, the call has two outcomes: a build with assertions aborts, a
\* build without them reads past the shorter operand and returns a value
\* that is indeterminate (Uninit), as is any value computed from an entry
\* that was never written.
Predict(cross) ==
  LET dotSized == Len(cross) = Len(regressed_)
      solveSized == Len(cross) = Len(llt_.matrix)
  IN  {[status |-> "ok",
        mean |-> IF dotSized THEN Dot(cross, regressed_) ELSE Uninit,
        variance |-> IF solveSized
                     THEN RSub(One, Dot(cross, LltSolve(llt_, cross)))
                     ELSE Uninit]}
      \cup (IF dotSized /\ solveSized THEN {}
            ELSE {[status |-> "eigen_assert", mean |-> Uninit, variance |-> Uninit]})

Returned(call, o) ==
  /\ last' = [call EXCEPT !.coeffLen = Len(regressed_),
                          !.lltDim = Len(llt_.matrix),
                          !.status = o.status, !.mean = o.mean,
                          !.variance = o.variance]
  /\ phase' = IF o.status = "ok" THEN "ready" ELSE "dead"

\* GaussianProcess::Evaluate(x, mean, variance)
Evaluate ==
  /\ phase = "ready"
  /\ \E x \in PointsOfDim(ctor.dimension) :
       \E cross \in {CrossCovariance(points_, params, x)} :
           \E o \in Predict(cross) :
             Returned([NoCall EXCEPT !.op = "Evaluate", !.x = x, !.cross = cross], o)
  /\ UNCHANGED <<ctor, gpState, synced>>

\* (a cross vector that aliases the column instead of copying it)
ExtractCrossInPlace(cov, ii, noise) ==
  LET c == [col(cov, ii) EXCEPT ![ii] = RSub(@, noise)]
  IN  [cross |-> c, covariance |-> [cov EXCEPT ![ii][ii] = c[ii]]]

\* VectorXd cross = covariance_.col(ii); cross(ii) -= noise_;   (ii 1-based)
\* the column is copied: the matrix keeps its entry
ExtractCross(cov, ii, noise) ==
  [cross |-> [col(cov, ii) EXCEPT ![ii] = RSub(@, noise)], covariance |-> cov]

\* (an index check that rejects the last training point)
IndexBelowLast(ii, size) == ii + 1 < size

\* CHECK_LT(ii, points_->size())
IndexInRange(ii, size) == ii < size

\* GaussianProcess::EvaluateTrainingPoint(ii, mean, variance), ii 0-based
EvaluateTrainingPoint ==
  /\ phase = "ready"
  /\ \E ii \in 0..(Len(points_) + 1) :
       LET call == [NoCall EXCEPT !.op = "EvaluateTrainingPoint", !.ii = ii]
       IN  IF IndexInRange(ii, Len(points_))
           THEN \E e \in {ExtractCross(covariance_, ii + 1, noise_)} :
                    /\ covariance_' = e.covariance
                    /\ \E o \in Predict(e.cross) :
                         Returned([call EXCEPT !.cross = e.cross], o)
           ELSE /\ covariance_' = covariance_
                /\ last' = [call EXCEPT !.status = "check_failed"]
                /\ phase' = "dead"
  /\ UNCHANGED <<ctor, kernel_, params, noise_, points_, max_points_, targets_,
                 regressed_, llt_, synced>>

\* ----------------------------------------------------------- learning
\* ceres::Solve on the buffer: the solver is a black box that leaves any
\* parameter vector in the buffer and reports it usable or not
Solve(start) == [buffers |-> ParamVectors, usable |-> BOOLEAN]

\* (a write-back that leaves the kernel as it was before the call)
KeepParams(kernel_params, parameters) == kernel_params

\* for (ii < kernel_params.size()) kernel_params(ii) = parameters[ii];

StoreParams(kernel_params, parameters) ==
  [ii \in 1..Len(kernel_params) |-> parameters[ii]]

\* GaussianProcess::LearnHyperparams()
LearnHyperparams ==
  /\ phase = "ready"
  /\ \E buffer \in Solve(params).buffers :
     \E stored \in {StoreParams(params, buffer)} :
     \E r \in {Recompute(covariance_, regressed_, points_, stored, noise_, targets_)} :
     \E usable \in Solve(params).usable :
           /\ params' = stored
           /\ covariance_' = r.covariance
           /\ llt_' = r.llt
           /\ regressed_' = r.regressed
           /\ synced' = [points |-> points_, params |-> stored]
           /\ last' = [NoCall EXCEPT !.op = "LearnHyperparams", !.start = params,
                                     !.buffer = buffer, !.ret = usable]
  /\ UNCHANGED <<phase, ctor, kernel_, noise_, points_, max_points_, targets_>>

\* ------------------------------------------------------ other holders
\* another holder of the shared point set appends a point (up to capacity)
AppendPoint ==
  /\ phase = "ready"
  /\ Len(points_) < Min(max_points_, MaxLen)
  /\ \E p \in PointsOfDim(ctor.dimension) : points_' = Append(points_, p)
  /\ last' = NoCall
  /\ UNCHANGED <<phase, ctor, kernel_, params, noise_, max_points_, targets_,
                 regressed_, covariance_, llt_, synced>>

\* another holder of the shared kernel writes its parameter vector
WriteParams ==
  /\ phase = "ready"
  /\ \E p \in ParamVectors \ {params} : params' = p
  /\ last' = NoCall
  /\ UNCHANGED <<phase, ctor, kernel_, noise_, points_, max_points_, targets_,
                 regressed_, covariance_, llt_, synced>>

\* ----------------------------------------------------- specifications
Next ==
  \/ ConstructFromDimension
  \/ ConstructFromPoints
  \/ ConstructFromTargets
  \/ Evaluate
  \/ EvaluateTrainingPoint
  \/ LearnHyperparams

\* the object's own operations
Spec == Init /\ [][Next]_vars

\* an object constructed on a point set and a kernel that the caller keeps
\* hold of
NextShared ==
  \/ ConstructFromPoints
  \/ Evaluate
  \/ EvaluateTrainingPoint
  \/ LearnHyperparams
  \/ AppendPoint
  \/ WriteParams

\* the object's operations interleaved with the other holders' changes
SpecShared == Init /\ [][NextShared]_vars

\* ------------------------------------------------------------- claims
n_points == Len(points_)

Constructed == phase = "ready" \/ (phase = "dead" /\ last.op # "GaussianProcess")

MatMul(a, b) ==
  [i \in 1..Len(a) |-> [j \in 1..Len(a) |->
     Dot(a[i], [k \in 1..Len(a) |-> b[k][j]])]]

Identity(n) == [i \in 1..n |-> [j \in 1..n |-> IF i = j THEN One ELSE Zero]]

\* the covariance block of the points pts under the kernel parameters prm
KernelBlock(pts, prm) ==
  [i \in 1..Len(pts) |-> [j \in 1..Len(pts) |->
     IF i = j THEN RAdd(One, noise_) ELSE KernelEvaluate(prm, pts[i], pts[j])]]

\* The cached covariance block, factorization and coefficients are the ones
\* computed from the points pts, the kernel parameters prm, the noise and the
\* target buffer: the block holds the kernel values, the factorization is that
\* of the block (it succeeded exactly when the block is positive definite, and
\* then it inverts the block), and the coefficients are its solve of the first
\* Len(pts) targets.
CachesComputedFrom(pts, prm) ==
  /\ Len(pts) <= max_points_
  /\ topLeftCorner(covariance_, Len(pts)) = KernelBlock(pts, prm)
  /\ llt_.matrix = KernelBlock(pts, prm)
  /\ (llt_.info = "Success") <=> PositiveDefinite(KernelBlock(pts, prm))
  /\ IF llt_.info = "Success"
     THEN /\ MatMul(KernelBlock(pts, prm), llt_.inverse) = Identity(Len(pts))
          /\ head(regressed_, Len(pts)) =
               MatVec(llt_.inverse, head(targets_, Len(pts)))
          /\ (\A i \in 1..Len(pts) : IsNum(targets_[i]))
               => MatVec(KernelBlock(pts, prm), head(regressed_, Len(pts)))
                    = head(targets_, Len(pts))
     ELSE head(regressed_, Len(pts)) = [i \in 1..Len(pts) |-> Garbage]

\* C1: after every successful construction and every LearnHyperparams, for
\* i # j below points.size() covariance(i, j) = covariance(j, i) =
\* kernel.Evaluate(point i, point j) under the current parameters, and
\* covariance(i, i) = 1 + noise.
C1_CovarianceBlock ==
  phase = "ready" =>
    \A i, j \in 1..n_points :
      IF i = j THEN covariance_[i][i] = RAdd(One, noise_)
      ELSE /\ covariance_[i][j] = covariance_[j][i]
           /\ covariance_[i][j] = KernelEvaluate(params, points_[i], points_[j])

C1_Witness ==
  /\ phase = "ready"
  /\ last.op = "LearnHyperparams"
  /\ n_points >= 2
  /\ points_[1] # points_[2]
  /\ covariance_[1][2] # One
  /\ covariance_[1][2] = covariance_[2][1]

\* C2 as stated: whenever no operation is in progress, also after changes by
\* the other holders of the point set and of the kernel, the caches are the
\* ones computed from the current point set and kernel parameters.
C2_CachesFollowCurrentInputs ==
  phase = "ready" => CachesComputedFrom(points_, params)

\* C2 as amended: whenever no operation is in progress, the caches are the ones
\* computed from the point set and the kernel parameters as they were when the
\* last constructor or LearnHyperparams call returned; what another holder
\* changed since then is not reflected in them.
C2_CachesFollowLastRecompute ==
  phase = "ready" =>
    /\ CachesComputedFrom(synced.points, synced.params)
    /\ last.op \in {"GaussianProcess", "LearnHyperparams"}
         => synced = [points |-> points_, params |-> params]

C2_Witness ==
  /\ phase = "ready"
  /\ synced.params # params
  /\ Len(synced.points) >= 1
  /\ n_points > Len(synced.points)
  /\ ~CachesComputedFrom(points_, params)

\* C3: when LearnHyperparams returns, true or false, the kernel's parameter
\* vector is the buffer the optimizer left, and covariance, factorization and
\* coefficients are recomputed, each from the one before, from those parameters.
C3_LearnCommitsBuffer ==
  last.op = "LearnHyperparams" =>
    /\ phase = "ready"
    /\ params = last.buffer
    /\ CachesComputedFrom(points_, last.buffer)

C3_Witness ==
  /\ last.op = "LearnHyperparams"
  /\ ~last.ret
  /\ last.start # last.buffer
  /\ params = last.buffer
  /\ n_points >= 2

\* C4: whenever the factorization of the block is computed and the block is
\* not positive definite, the operation fails, so no object is left usable
\* with a failed factorization and coefficients solved from it.
C4_IndefiniteBlockFails ==
  phase = "ready" => llt_.info = "Success"

PointDimensionBelowOne ==
  IF ctor.overload = 1 THEN ctor.dimension < 1
  ELSE \E i \in 1..n_points : Len(points_[i]) < 1

\* C5: each constructor fails, before any target, covariance, factorization
\* or coefficient is computed, when the kernel is null, noise <= 0,
\* max_points < 1 or the point dimension is < 1; the overloads taking a point
\* set also when points.size() > max_points, the one taking targets also when
\* targets.size() # points.size().
C5_PreconditionsChecked ==
  (/\ ctor.overload \in {1, 2, 3}
   /\ \/ kernel_ = "null"
      \/ ~RPos(noise_)
      \/ max_points_ < 1
      \/ PointDimensionBelowOne
      \/ ctor.overload \in {2, 3} /\ n_points > max_points_
      \/ ctor.overload = 3 /\ ctor.targets_size # n_points)
  => /\ phase = "dead"
     /\ last.op = "GaussianProcess"
     /\ last.status = "check_failed"
     /\ targets_ = NewVector(max_points_)
     /\ covariance_ = NewMatrix(max_points_)
     /\ regressed_ = NewVector(max_points_)
     /\ llt_ = NewLlt

\* C6: after a successful construction and any of the object's operations,
\* 0 <= points.size() <= max_points and exactly the first points.size()
\* targets are written; the dimension overload creates max_points / 10 + 1
\* points; a point-set overload does not fail on points.size() = max_points
\* and fails on points.size() = max_points + 1.
C6_SizeWithinCapacity ==
  /\ Constructed =>
       /\ 0 <= n_points /\ n_points <= max_points_
       /\ \A i \in 1..max_points_ : (targets_[i] # Uninit) <=> (i <= n_points)
       /\ ctor.overload = 1 => n_points = (max_points_ \div 10) + 1
  /\ (ctor.overload \in {2, 3} /\ n_points = max_points_ + 1) => phase = "dead"
  /\ (/\ ctor.overload \in {2, 3}
      /\ n_points = max_points_
      /\ kernel_ # "null" /\ RPos(noise_) /\ max_points_ >= 1
      /\ ctor.overload = 3 => ctor.targets_size = n_points)
     => Constructed

C6_Witness ==
  /\ phase = "ready"
  /\ ctor.overload \in {2, 3}
  /\ n_points = max_points_
  /\ n_points >= 2
  /\ last.op = "LearnHyperparams"

\* C7: EvaluateTrainingPoint(i) fails its index check, producing no mean or
\* variance, for every i >= points.size(), and passes it for every i below.
C7_IndexCheck ==
  last.op = "EvaluateTrainingPoint" =>
    /\ (last.status = "check_failed") <=> (last.ii >= n_points)
    /\ last.status = "check_failed" =>
         /\ phase = "dead"
         /\ last.mean = Uninit /\ last.variance = Uninit

C7_Witness ==
  /\ last.op = "EvaluateTrainingPoint"
  /\ n_points >= 1
  /\ last.ii = n_points
  /\ last.status = "check_failed"

\* what Evaluate(x) can return in the current state
EvaluateResults(x) ==
  {<<o.status, o.mean, o.variance>> :
     o \in Predict(CrossCovariance(points_, params, x))}

\* C8: for n = points.size() <= max_points and i < n the cross vector of
\* EvaluateTrainingPoint(i) is the n-length vector with entry j =
\* kernel.Evaluate(point j, point i) for j # i and entry i = (1 + noise) -
\* noise; for a kernel with k(x, x) = 1 it is the vector CrossCovariance(point
\* i) fills and the call returns what Evaluate(point i) returns.
C8_TrainingCrossIsKernelColumn ==
  (last.op = "EvaluateTrainingPoint" /\ last.status # "check_failed") =>
    /\ Len(last.cross) = n_points
    /\ \A j \in 1..n_points :
         last.cross[j] = IF j = last.ii + 1
                         THEN RSub(RAdd(One, noise_), noise_)
                         ELSE KernelEvaluate(params, points_[j], points_[last.ii + 1])
    /\ params[1] = 1 =>
         /\ last.cross = CrossCovariance(points_, params, points_[last.ii + 1])
         /\ <<last.status, last.mean, last.variance>>
              \in EvaluateResults(points_[last.ii + 1])

\* C9: for points.size() < max_points, every operand of the dot products and
\* of the solve in Evaluate and EvaluateTrainingPoint has length exactly
\* points.size(), so that no entry at an index >= points.size() is read.
C9_OperandsHaveValidLength ==
  (/\ last.op \in {"Evaluate", "EvaluateTrainingPoint"}
   /\ last.status # "check_failed"
   /\ n_points < max_points_)
  => /\ Len(last.cross) = n_points
     /\ last.coeffLen = n_points
     /\ last.lltDim = n_points
     /\ last.status = "ok"

\* C10: Evaluate(x) and EvaluateTrainingPoint(i), in range or not, leave the
\* point set, targets, covariance, factorization, coefficients, noise and
\* kernel parameters unchanged; covariance(i, i) is still 1 + noise after
\* EvaluateTrainingPoint(i).
C10_QueriesChangeNothing ==
  [][last'.op \in {"Evaluate", "EvaluateTrainingPoint"} =>
       /\ UNCHANGED gpState
       /\ (last'.op = "EvaluateTrainingPoint" /\ last'.status # "check_failed")
            => covariance_'[last'.ii + 1][last'.ii + 1] = RAdd(One, noise_')]_vars

C10_Witness ==
  /\ last.op = "EvaluateTrainingPoint"
  /\ last.status = "ok"
  /\ last.cross[last.ii + 1] = One
  /\ covariance_[last.ii + 1][last.ii + 1] = RAdd(One, noise_)
  /\ RPos(noise_)

====
